---- MODULE Spec2Model ----
(***************************************************************************)
(* The record-management page of cloud-test-site: the Index component      *)
(* (src/src/pages/Index.tsx), the calls it has in flight, and the Record   *)
(* Service with its demo_entries table.  The Record Service handler is not *)
(* part of the sources; its operations follow spec.md 4.1, its table the   *)
(* CREATE TABLE statement at the end of Index.tsx.                         *)
(*                                                                         *)
(* Strings are sequences of one-character strings, so that trim() is       *)
(* computed and not assumed.  A value that may be undefined in JavaScript  *)
(* is a record [defined, rows].                                            *)
(***************************************************************************)
EXTENDS Bags, FiniteSets, Integers, Sequences, TLC

VARIABLES
    entries,      \* useState<DemoEntry[]>([]): [defined, rows]
    title,        \* useState('')
    description,  \* useState('')
    isLoading,    \* useState(false)
    activeTab,    \* useState<'demo' | 'status'>('demo')
    notice,       \* the toast() call of the last step, "none" when it made none
    crashed,      \* a render of the status tab has thrown on entries.length
    net,          \* bag of calls in flight: requests on their way, responses on their way back
    storage,      \* rows of demo_entries
    nextId,       \* next value of the SERIAL sequence of demo_entries.id
    clock,        \* CURRENT_TIMESTAMP of the last insertion, 0 before the first
    usedIds,      \* history: ids the SERIAL sequence has handed out
    issued,       \* Create and Delete calls the user has issued so far
    deletedOk     \* history: ids whose Delete call the client has seen succeed

vars == <<entries, title, description, isLoading, activeTab, notice, crashed,
          net, storage, nextId, clock, usedIds, issued, deletedOk>>

client == <<entries, title, description, isLoading, activeTab, notice, crashed, deletedOk>>
server == <<storage, nextId, clock, usedIds>>

(***************************************************************************)
(* Bounds and input sets                                                   *)
(***************************************************************************)
\* Create and Delete calls the user issues in one run
MaxCalls == 2

\* requests callers send to the Record Service directly in one run
MaxRequests == 3

\* what the user may type into the title field
Titles == { <<>>, <<" ">>, <<" ", "a">> }
\* what the user may type into the description field
Descriptions == { <<>>, <<"d">> }

(***************************************************************************)
(* Pure helpers                                                            *)
(***************************************************************************)
IsSpace(ch) == ch = " "

RECURSIVE TrimStart(_)
TrimStart(s) ==
    IF s # <<>> /\ IsSpace(Head(s)) THEN TrimStart(Tail(s)) ELSE s

RECURSIVE TrimEnd(_)
TrimEnd(s) ==
    IF s # <<>> /\ IsSpace(s[Len(s)]) THEN TrimEnd(SubSeq(s, 1, Len(s) - 1)) ELSE s

\* String.prototype.trim
Trim(s) == TrimEnd(TrimStart(s))

\* !title.trim() is false: the submission is let through
TitleAcceptedUntrimmed(t) == t # <<>>
TitleAccepted(t) == Trim(t) # <<>>

\* response.ok
ResponseOk(res) == ~res.failed /\ res.status >= 200 /\ res.status <= 299

DefinedList(rows) == [defined |-> TRUE, rows |-> rows]
Undefined == [defined |-> FALSE, rows |-> <<>>]

\* ids of the rows the status tab shows
ShownIds(e) == IF e.defined THEN { e.rows[i].id : i \in 1..Len(e.rows) } ELSE {}

OneCall(c) == SetToBag({c})

CallsOf(kind) == { c \in BagToSet(net) : c.kind = kind }

InFlight(kind) ==
    LET cs == CallsOf(kind)
        RECURSIVE Sum(_)
        Sum(S) == IF S = {} THEN 0
                  ELSE LET c == CHOOSE x \in S : TRUE
                       IN CopiesIn(c, net) + Sum(S \ {c})
    IN Sum(cs)

(***************************************************************************)
(* Record Service and storage                                              *)
(***************************************************************************)
\* SELECT ... ORDER BY created_at DESC: every order the statement may return,
\* rows of equal created_at in either order
RECURSIVE ListingsAscending(_)
ListingsAscending(S) ==
    IF S = {} THEN {<<>>}
    ELSE UNION { { <<r>> \o t : t \in ListingsAscending(S \ {r}) } :
                 r \in { x \in S : \A y \in S : x.created_at <= y.created_at } }

RECURSIVE Listings(_)
Listings(S) ==
    IF S = {} THEN {<<>>}
    ELSE UNION { { <<r>> \o t : t \in Listings(S \ {r}) } :
                 r \in { x \in S : \A y \in S : y.created_at <= x.created_at } }

\* id SERIAL PRIMARY KEY: the next value of the sequence
NewIdAfterLast ==
    IF storage = {} THEN 1
    ELSE (CHOOSE i \in { r.id : r \in storage } : \A r \in storage : r.id <= i) + 1
NewId == nextId

\* created_at DEFAULT CURRENT_TIMESTAMP: the time of the insertion, which is not
\* before the time of the insertion before it
TimestampsBackdated == {clock - 1}
Timestamps == IF clock = 0 THEN {1} ELSE {clock, clock + 1}

NoBody == [json |-> TRUE, entries |-> Undefined]
Garbled == [json |-> FALSE, entries |-> Undefined]
EntriesBody(rows) == [json |-> TRUE, entries |-> DefinedList(rows)]

Response(status, body) == [failed |-> FALSE, status |-> status, body |-> body]
\* fetch() rejects
Rejected == [failed |-> TRUE, status |-> 0, body |-> Garbled]

Answer(c, res) == [c EXCEPT !.stage = "resp", !.res = res]

\* List: all rows, newest first, under the key entries
ServeList(c) ==
    /\ \E rows \in Listings(storage) :
         net' = (net (-) OneCall(c)) (+) OneCall(Answer(c, Response(200, EntriesBody(rows))))
    /\ UNCHANGED server

\* Create without the check of the title
ServeCreateUnvalidated(c, T) ==
    /\ \E now \in T :
         /\ storage' = storage \cup
               {[id |-> NewId, title |-> c.title, description |-> c.description,
                 created_at |-> now]}
         /\ clock' = now
    /\ nextId' = nextId + 1
    /\ usedIds' = usedIds \cup {NewId}
    /\ net' = (net (-) OneCall(c)) (+) OneCall(Answer(c, Response(200, NoBody)))

\* Create: a client error for a blank title, else one row inserted, stamped with
\* a time of T
ServeCreate(c, T) ==
    IF Trim(c.title) = <<>>
    THEN /\ net' = (net (-) OneCall(c)) (+) OneCall(Answer(c, Response(400, NoBody)))
         /\ UNCHANGED server
    ELSE /\ \E now \in T :
              /\ storage' = storage \cup
                    {[id |-> NewId, title |-> c.title, description |-> c.description,
                      created_at |-> now]}
              /\ clock' = now
         /\ nextId' = nextId + 1
         /\ usedIds' = usedIds \cup {NewId}
         /\ net' = (net (-) OneCall(c)) (+) OneCall(Answer(c, Response(200, NoBody)))

\* Delete that reports a missing row as not found
ServeDeleteNotFound(c) ==
    /\ storage' = { r \in storage : r.id # c.id }
    /\ net' = (net (-) OneCall(c)) (+)
                OneCall(Answer(c, Response(IF \E r \in storage : r.id = c.id THEN 200 ELSE 404,
                                           NoBody)))
    /\ UNCHANGED <<nextId, clock, usedIds>>

\* Delete: zero or one row removed, success either way
ServeDelete(c) ==
    /\ storage' = { r \in storage : r.id # c.id }
    /\ net' = (net (-) OneCall(c)) (+) OneCall(Answer(c, Response(200, NoBody)))
    /\ UNCHANGED <<nextId, clock, usedIds>>

\* the request reaches the Record Service and is answered
ServeAt(c, T) ==
    /\ BagIn(c, net) /\ c.stage = "req"
    /\ \/ c.kind = "list" /\ ServeList(c)
       \/ c.kind = "create" /\ ServeCreate(c, T)
       \/ c.kind = "delete" /\ ServeDelete(c)
    /\ UNCHANGED <<client, issued>>

\* answered, with insertions that fall on different instants
Serve(c) == ServeAt(c, { t \in Timestamps : t > clock })

\* answered, with insertions that may fall on the same instant
ServeAnytime(c) == ServeAt(c, Timestamps)

\* storage unreachable: a server error, with or without a JSON body, nothing mutated
ServeError(c) ==
    /\ BagIn(c, net) /\ c.stage = "req"
    /\ \E body \in (IF c.kind = "list" THEN {NoBody, Garbled} ELSE {NoBody}) :
         net' = (net (-) OneCall(c)) (+) OneCall(Answer(c, Response(500, body)))
    /\ UNCHANGED <<client, server, issued>>

\* the transport fails: the request never arrives, or its response is lost
Drop(c) ==
    /\ BagIn(c, net)
    /\ ~c.res.failed
    /\ net' = (net (-) OneCall(c)) (+) OneCall(Answer(c, Rejected))
    /\ UNCHANGED <<client, server, issued>>

(***************************************************************************)
(* Client View: Index                                                      *)
(***************************************************************************)
Pending == [failed |-> FALSE, status |-> 0, body |-> Garbled]

ListCall ==
    [kind |-> "list", stage |-> "req", res |-> Pending]
CreateCall(t, d) ==
    [kind |-> "create", stage |-> "req", title |-> t, description |-> d, res |-> Pending]
DeleteCall(id) ==
    [kind |-> "delete", stage |-> "req", id |-> id, res |-> Pending]

\* fetchEntries up to its await: one List request
fetchEntriesSkipped == EmptyBag
fetchEntries == OneCall(ListCall)

\* finally { setIsLoading(false) }
AfterSubmitNoFinally(res) == ~ResponseOk(res)
AfterSubmit(res) == FALSE

\* entries.length in the status tab throws when entries is undefined
RenderThrows(tab, e) == tab = "status" /\ ~e.defined

Rerender == crashed' = (crashed \/ RenderThrows(activeTab', entries'))

\* <Button type="submit" disabled={isLoading}>
SubmitEnabledAlways == TRUE
SubmitEnabled == ~isLoading

\* the two tab buttons
SetActiveTab(tab) ==
    /\ ~crashed
    /\ activeTab' = tab
    /\ notice' = "none"
    /\ UNCHANGED <<entries, title, description, isLoading, net, server, issued, deletedOk>>
    /\ Rerender

\* <Input onChange>
SetTitle(t) ==
    /\ ~crashed /\ activeTab = "demo"
    /\ title' = t
    /\ notice' = "none"
    /\ UNCHANGED <<entries, description, isLoading, activeTab, crashed, net, server, issued, deletedOk>>

\* <Textarea onChange>
SetDescription(d) ==
    /\ ~crashed /\ activeTab = "demo"
    /\ description' = d
    /\ notice' = "none"
    /\ UNCHANGED <<entries, title, isLoading, activeTab, crashed, net, server, issued, deletedOk>>

\* handleSubmit up to its await
handleSubmit ==
    /\ ~crashed /\ activeTab = "demo" /\ SubmitEnabled
    /\ IF ~TitleAccepted(title)
       THEN /\ notice' = "title_required"
            /\ UNCHANGED <<isLoading, net, issued>>
       ELSE /\ issued < MaxCalls /\ issued' = issued + 1
            /\ isLoading' = TRUE
            /\ net' = net (+) OneCall(CreateCall(title, description))
            /\ notice' = "none"
    /\ UNCHANGED <<entries, title, description, activeTab, crashed, server, deletedOk>>

\* a field after a successful Create that keeps what was typed since the submission
ClearedUnlessEdited(field, sent) == IF field = sent THEN <<>> ELSE field
\* setTitle(''), setDescription('')
Cleared(field, sent) == <<>>

\* handleSubmit from the resolution of its fetch
handleSubmitResume(c) ==
    /\ BagIn(c, net) /\ c.kind = "create" /\ c.stage = "resp"
    /\ IF c.res.failed
       THEN /\ notice' = "save_failed"
            /\ net' = net (-) OneCall(c)
            /\ UNCHANGED <<title, description>>
       ELSE IF ResponseOk(c.res)
       THEN /\ notice' = "saved"
            /\ title' = Cleared(title, c.title)
            /\ description' = Cleared(description, c.description)
            /\ net' = (net (-) OneCall(c)) (+) fetchEntries
       ELSE /\ notice' = "none"
            /\ net' = net (-) OneCall(c)
            /\ UNCHANGED <<title, description>>
    /\ isLoading' = AfterSubmit(c.res)
    /\ UNCHANGED <<entries, activeTab, crashed, server, issued, deletedOk>>

\* handleDelete up to its await
handleDelete(id) ==
    /\ ~crashed /\ activeTab = "status"
    /\ id \in ShownIds(entries)
    /\ issued < MaxCalls /\ issued' = issued + 1
    /\ net' = net (+) OneCall(DeleteCall(id))
    /\ notice' = "none"
    /\ UNCHANGED <<entries, title, description, isLoading, activeTab, crashed, server, deletedOk>>

\* handleDelete makes no setEntries call: the row stays until a List response
ViewAfterDeleteOptimistic(c) ==
    IF entries.defined
    THEN DefinedList(SelectSeq(entries.rows, LAMBDA r : r.id # c.id))
    ELSE entries
ViewAfterDelete(c) == entries

\* handleDelete from the resolution of its fetch, with a failed call sent again
handleDeleteResumeRetrying(c) ==
    /\ BagIn(c, net) /\ c.kind = "delete" /\ c.stage = "resp"
    /\ entries' = ViewAfterDelete(c)
    /\ IF ResponseOk(c.res)
       THEN /\ notice' = "deleted"
            /\ net' = (net (-) OneCall(c)) (+) fetchEntries
            /\ deletedOk' = deletedOk \cup {c.id}
       ELSE /\ notice' = "delete_failed"
            /\ net' = (net (-) OneCall(c)) (+) OneCall(DeleteCall(c.id))
            /\ UNCHANGED deletedOk
    /\ UNCHANGED <<title, description, isLoading, activeTab, crashed, server, issued>>

\* handleDelete from the resolution of its fetch
handleDeleteResume(c) ==
    /\ BagIn(c, net) /\ c.kind = "delete" /\ c.stage = "resp"
    /\ entries' = ViewAfterDelete(c)
    /\ IF c.res.failed
       THEN /\ notice' = "delete_failed"
            /\ net' = net (-) OneCall(c)
            /\ UNCHANGED deletedOk
       ELSE IF ResponseOk(c.res)
       THEN /\ notice' = "deleted"
            /\ net' = (net (-) OneCall(c)) (+) fetchEntries
            /\ deletedOk' = deletedOk \cup {c.id}
       ELSE /\ notice' = "none"
            /\ net' = net (-) OneCall(c)
            /\ UNCHANGED deletedOk
    /\ UNCHANGED <<title, description, isLoading, activeTab, crashed, server, issued>>

\* setEntries(data.entries): whatever the body holds under the key entries
ReceivedIfLatest(c) == IF InFlight("list") > 1 THEN entries ELSE c.res.body.entries
Received(c) == c.res.body.entries

\* fetchEntries from the resolution of its fetch
fetchEntriesResume(c) ==
    /\ BagIn(c, net) /\ c.kind = "list" /\ c.stage = "resp"
    /\ net' = net (-) OneCall(c)
    /\ IF c.res.failed \/ ~c.res.body.json
       THEN /\ notice' = "load_failed"
            /\ UNCHANGED entries
       ELSE /\ notice' = "none"
            /\ entries' = Received(c)
    /\ UNCHANGED <<title, description, isLoading, activeTab, server, issued, deletedOk>>
    /\ Rerender

(***************************************************************************)
(* Specification                                                           *)
(***************************************************************************)
\* the component after its first render and its mount effect
Init ==
    /\ entries = DefinedList(<<>>)
    /\ title = <<>>
    /\ description = <<>>
    /\ isLoading = FALSE
    /\ activeTab = "demo"
    /\ notice = "none"
    /\ crashed = FALSE
    /\ net = fetchEntries
    /\ storage = {}
    /\ nextId = 1
    /\ clock = 0
    /\ usedIds = {}
    /\ issued = 0
    /\ deletedOk = {}

Calls == BagToSet(net)

CreateResolves ==
    \E c \in CallsOf("create") : Serve(c) \/ ServeError(c) \/ Drop(c) \/ handleSubmitResume(c)

Next ==
    \/ \E tab \in {"demo", "status"} : SetActiveTab(tab)
    \/ \E t \in Titles : SetTitle(t)
    \/ \E d \in Descriptions : SetDescription(d)
    \/ handleSubmit
    \/ \E id \in ShownIds(entries) : handleDelete(id)
    \/ \E c \in Calls : Serve(c)
    \/ \E c \in Calls : ServeError(c)
    \/ \E c \in Calls : Drop(c)
    \/ \E c \in Calls : handleSubmitResume(c)
    \/ \E c \in Calls : handleDeleteResume(c)
    \/ \E c \in Calls : fetchEntriesResume(c)

Spec == Init /\ [][Next]_vars

\* the user starts an action only when the call sequence of the previous one has
\* resolved
OneAtATime == issued = 0 \/ net = EmptyBag

\* the page used one action at a time, every call succeeding
CalmNext ==
    \/ \E tab \in {"demo", "status"} : SetActiveTab(tab)
    \/ \E t \in Titles : SetTitle(t)
    \/ \E d \in Descriptions : SetDescription(d)
    \/ OneAtATime /\ handleSubmit
    \/ \E id \in ShownIds(entries) : OneAtATime /\ handleDelete(id)
    \/ \E c \in Calls : ServeAnytime(c)
    \/ \E c \in Calls : handleSubmitResume(c)
    \/ \E c \in Calls : handleDeleteResume(c)
    \/ \E c \in Calls : fetchEntriesResume(c)

CalmSpec == Init /\ [][CalmNext]_vars

\* every issued Create call eventually resolves
FairSpec == Spec /\ WF_vars(CreateResolves)

(***************************************************************************)
(* The Record Service on its own: any caller may send it any request, the  *)
(* page's check of the title bypassed                                      *)
(***************************************************************************)
ServiceInit ==
    /\ entries = DefinedList(<<>>)
    /\ title = <<>>
    /\ description = <<>>
    /\ isLoading = FALSE
    /\ activeTab = "demo"
    /\ notice = "none"
    /\ crashed = FALSE
    /\ net = EmptyBag
    /\ storage = {}
    /\ nextId = 1
    /\ clock = 0
    /\ usedIds = {}
    /\ issued = 0
    /\ deletedOk = {}

Request(c) ==
    /\ issued < MaxRequests
    /\ issued' = issued + 1
    /\ net' = net (+) OneCall(c)
    /\ UNCHANGED <<client, server>>

\* the caller takes the response
Receive(c) ==
    /\ BagIn(c, net) /\ c.stage = "resp"
    /\ net' = net (-) OneCall(c)
    /\ UNCHANGED <<client, server, issued>>

ServiceNext ==
    \/ Request(ListCall)
    \/ \E t \in Titles, d \in Descriptions : Request(CreateCall(t, d))
    \/ \E id \in 1..nextId : Request(DeleteCall(id))
    \/ \E c \in Calls : ServeAnytime(c)
    \/ \E c \in Calls : ServeError(c)
    \/ \E c \in Calls : Drop(c)
    \/ \E c \in Calls : Receive(c)

ServiceSpec == ServiceInit /\ [][ServiceNext]_vars

TypeOK ==
    /\ entries.defined \in BOOLEAN
    /\ issued \in Nat
    /\ title \in Titles
    /\ description \in Descriptions
    /\ isLoading \in BOOLEAN
    /\ activeTab \in {"demo", "status"}
    /\ crashed \in BOOLEAN

(***************************************************************************)
(* Properties                                                              *)
(***************************************************************************)
ErrorNotices == {"load_failed", "save_failed", "delete_failed", "title_required"}

\* the List call returned entries: a response whose JSON body has the key entries
HasEntries(res) == ~res.failed /\ res.body.json /\ res.body.entries.defined

\* C1: at most one Create call is in flight, and the form is submitting
\* (submit control disabled) exactly while that call is unresolved
C1_SingleCreateInFlight ==
    /\ InFlight("create") <= 1
    /\ isLoading <=> InFlight("create") = 1

\* a Create call is in flight with its response delayed, while the form in front
\* of the user holds a title that would pass validation
C1_Witness ==
    /\ isLoading /\ ~crashed /\ activeTab = "demo"
    /\ Trim(title) # <<>>
    /\ \E c \in CallsOf("create") : c.stage = "resp"

\* C2: the form enters submitting only from idle, only with a title that is
\* non-empty after trimming and together with the issue of a Create call, and
\* every submitting state is followed by idle once the call has resolved
C2_FormCycle ==
    /\ [][(~isLoading /\ isLoading') =>
            (Trim(title) # <<>> /\ InFlight("create")' = InFlight("create") + 1)]_vars
    /\ [][(isLoading /\ ~isLoading') => InFlight("create")' = InFlight("create") - 1]_vars
    /\ (isLoading ~> ~isLoading)

\* the form is idle again after a Create call that failed at the network level
C2_Witness == ~isLoading /\ notice = "save_failed" /\ Trim(title) # <<>>

\* C3: a submission with a title that is empty after trimming issues no request,
\* leaves the form idle and leaves title, description and entries as they are
C3_BlankTitleRejected ==
    [][(Trim(title) = <<>>) =>
         /\ InFlight("create")' <= InFlight("create")
         /\ handleSubmit =>
              /\ net' = net
              /\ isLoading' = FALSE
              /\ title' = title /\ description' = description
              /\ entries' = entries /\ server' = server]_vars

\* a whitespace-only title has just been rejected
C3_Witness ==
    /\ notice = "title_required"
    /\ title # <<>> /\ Trim(title) = <<>>
    /\ ~isLoading /\ InFlight("create") = 0

\* C4 as stated: every failed Create call (rejected fetch, or a response that is
\* not ok) raises the save error notice and keeps both fields
C4_CreateFailureNoticed ==
    [][\A c \in CallsOf("create") :
         (handleSubmitResume(c) /\ ~ResponseOk(c.res)) =>
            /\ notice' = "save_failed"
            /\ title' = title /\ description' = description]_vars

\* C5: a successful Create call clears both fields and issues exactly one List
\* request, and a List response that carries entries replaces the collection
C5_CreateSuccessRefreshes ==
    [][/\ \A c \in CallsOf("create") :
            (handleSubmitResume(c) /\ ResponseOk(c.res)) =>
               /\ title' = <<>> /\ description' = <<>>
               /\ net' = (net (-) OneCall(c)) (+) OneCall(ListCall)
               /\ InFlight("list")' = InFlight("list") + 1
       /\ \A c \in CallsOf("list") :
            (fetchEntriesResume(c) /\ HasEntries(c.res)) =>
               entries' = DefinedList(c.res.body.entries.rows)]_vars

\* a Create call carrying a description has just succeeded: the fields are empty
\* and its List request is on the way
C5_Witness ==
    /\ notice = "saved"
    /\ title = <<>> /\ description = <<>>
    /\ InFlight("list") = 1
    /\ \E r \in storage : r.description # <<>>

\* C6 as stated: a row leaves a well-formed view only if the client has seen a
\* Delete call for its id succeed
C6_RemovedOnlyAfterDeleteOk ==
    [][\A id \in ShownIds(entries) :
         (entries'.defined /\ id \notin ShownIds(entries')) => id \in deletedOk']_vars

\* C6 as amended: the collection changes only when a List response is applied;
\* the resolution of a Delete call leaves the collection as it is and issues a
\* List request exactly when the response is ok
C6_ViewChangesOnlyByList ==
    [][/\ entries' # entries => \E c \in CallsOf("list") : fetchEntriesResume(c)
       /\ \A c \in CallsOf("delete") :
            handleDeleteResume(c) =>
               /\ entries' = entries
               /\ IF ResponseOk(c.res)
                  THEN InFlight("list")' = InFlight("list") + 1
                  ELSE InFlight("list")' = InFlight("list")]_vars

\* a Delete call has just failed and its row is still shown
C6_Witness ==
    /\ notice = "delete_failed"
    /\ ShownIds(entries) # {}
    /\ deletedOk = {}

\* C7 as stated: every failed Delete call raises the delete error notice
C7_DeleteFailureNoticed ==
    [][\A c \in CallsOf("delete") :
         (handleDeleteResume(c) /\ ~ResponseOk(c.res)) => notice' = "delete_failed"]_vars

\* C8 as stated: the List call of the initial display sets the collection to the
\* returned entries when it succeeds, and on any failure raises the load error
\* notice and leaves the collection the empty list
C8_InitialListSettles ==
    [][issued = 0 =>
         \A c \in CallsOf("list") :
            fetchEntriesResume(c) =>
               IF ResponseOk(c.res) /\ HasEntries(c.res)
               THEN entries' = c.res.body.entries
               ELSE notice' = "load_failed" /\ entries' = DefinedList(<<>>)]_vars

\* C9 as stated: the collection is always a list the view can render, and no
\* render has thrown
C9_ViewNeverBreaks == entries.defined /\ ~crashed

Mutations == InFlight("create") + InFlight("delete")

\* C11: a Create or Delete request comes into being only by a user action, one
\* per action; when it resolves it is taken out and never sent again, and one
\* List request is issued exactly when its response is ok; a List request
\* comes into being in no other way
C11_OneSequencePerAction ==
    [][/\ Mutations' > Mutations =>
            /\ Mutations' = Mutations + 1
            /\ issued' = issued + 1
            /\ InFlight("list")' = InFlight("list")
       /\ \A c \in CallsOf("create") \cup CallsOf("delete") :
            (handleSubmitResume(c) \/ handleDeleteResume(c)) =>
               /\ Mutations' = Mutations - 1
               /\ net' = (net (-) OneCall(c)) (+)
                           (IF ResponseOk(c.res) THEN OneCall(ListCall) ELSE EmptyBag)
       /\ InFlight("list")' > InFlight("list") =>
            \E c \in CallsOf("create") \cup CallsOf("delete") :
               /\ ResponseOk(c.res)
               /\ handleSubmitResume(c) \/ handleDeleteResume(c)]_vars

\* a Delete call has failed after an earlier action: nothing is in flight, so it
\* was neither sent again nor followed by a List request
C11_Witness ==
    /\ notice = "delete_failed"
    /\ net = EmptyBag
    /\ issued = 2
RowsOf(rows) == { rows[i] : i \in 1..Len(rows) }
IdsOf(S) == { r.id : r \in S }

\* the response the Record Service has just given to the request c
Answered(c, res) == net' = (net (-) OneCall(c)) (+) OneCall(Answer(c, res))

\* C12: a Create with a title that is non-empty after trimming succeeds and adds
\* exactly one row, carrying that title and description under an id greater
\* than every id handed out before, deleted ones included; a List right after
\* it returns the previous rows and that row, and no id names two rows
C12_CreateAddsOneFreshRow ==
    [][\A c \in CallsOf("create") :
         (ServeAnytime(c) /\ Trim(c.title) # <<>>) =>
            /\ Answered(c, Response(200, NoBody))
            /\ \E r \in storage' :
                 /\ r \notin storage
                 /\ storage' = storage \cup {r}
                 /\ r.title = c.title /\ r.description = c.description
                 /\ \A i \in usedIds \cup IdsOf(storage) : r.id > i
                 /\ \A rows \in Listings(storage') :
                      /\ RowsOf(rows) = storage \cup {r}
                      /\ Len(rows) = Cardinality(storage) + 1
            /\ \A r, q \in storage' : r.id = q.id => r = q]_vars

\* the only stored row has id 2: the row with id 1 was deleted before it was made
C12_Witness ==
    /\ IdsOf(storage) = {2}
    /\ usedIds = {1, 2}

\* C13: a Create whose title is empty or whitespace-only (a missing title is
\* read as the empty one) is answered with a client error and changes nothing
\* of the storage, so no stored row ever has such a title
C13_BlankTitleNeverStored ==
    [][/\ \A c \in CallsOf("create") :
            (ServeAnytime(c) /\ Trim(c.title) = <<>>) =>
               /\ server' = server
               /\ \E res \in {Response(400, NoBody)} :
                    /\ res.status >= 400 /\ res.status <= 499
                    /\ Answered(c, res)
       /\ \A r \in storage' : Trim(r.title) # <<>>]_vars

\* a whitespace-only title sent past the page's check has been refused, next to
\* a row that was stored
C13_Witness ==
    /\ storage # {}
    /\ \E c \in CallsOf("create") :
         /\ c.stage = "resp" /\ c.title = <<" ">>
         /\ ~c.res.failed /\ c.res.status = 400

\* C14: a Delete removes the row of its id and no other and reports success; for
\* an id without a row it reports success and leaves the storage as it is; a
\* List after it does not hold the id
C14_DeleteIdempotent ==
    [][\A c \in CallsOf("delete") :
         ServeAnytime(c) =>
            /\ \E res \in {Response(200, NoBody)} : ResponseOk(res) /\ Answered(c, res)
            /\ storage' \subseteq storage
            /\ \A r \in storage : r.id # c.id => r \in storage'
            /\ c.id \notin IdsOf(storage')
            /\ c.id \notin IdsOf(storage) => storage' = storage
            /\ \A rows \in Listings(storage') : c.id \notin IdsOf(RowsOf(rows))
            /\ UNCHANGED <<nextId, usedIds>>]_vars

\* the Delete of an id that had a row has been answered twice, both times ok
C14_Witness ==
    \E c \in CallsOf("delete") :
       /\ c.stage = "resp" /\ ResponseOk(c.res)
       /\ c.id \in usedIds
       /\ CopiesIn(c, net) = 2

\* C15 as stated: in every List response a row inserted later (greater id) stands
\* before every row inserted earlier
C15_ListedInInsertionOrder ==
    \A c \in CallsOf("list") :
       HasEntries(c.res) =>
          \A i, j \in 1..Len(c.res.body.entries.rows) :
             i < j => c.res.body.entries.rows[i].id > c.res.body.entries.rows[j].id

\* C15 as amended: List returns all stored rows and only those, each once, in
\* descending order of created_at; created_at does not decrease with id, and a
\* row inserted later stands after a row inserted earlier only if both have the
\* same created_at
C15_ListedByCreatedAt ==
    [][/\ \A c \in CallsOf("list") :
            ServeAnytime(c) =>
               \E rows \in Listings(storage) :
                  /\ Answered(c, Response(200, EntriesBody(rows)))
                  /\ RowsOf(rows) = storage
                  /\ Len(rows) = Cardinality(storage)
                  /\ \A i, j \in 1..Len(rows) :
                       i < j =>
                          /\ rows[i].created_at >= rows[j].created_at
                          /\ rows[i].id < rows[j].id =>
                                rows[i].created_at = rows[j].created_at
       /\ \A r, q \in storage' : r.id < q.id => r.created_at <= q.created_at]_vars

\* a List response holds two rows of the same created_at, the earlier one first
C15_Witness ==
    \E c \in CallsOf("list") :
       /\ HasEntries(c.res)
       /\ Len(c.res.body.entries.rows) = 2
       /\ c.res.body.entries.rows[1].id < c.res.body.entries.rows[2].id
       /\ c.res.body.entries.rows[1].created_at = c.res.body.entries.rows[2].created_at
\* C17: while a Create call is in flight both fields can still be edited; an edit
\* changes no call in flight and nothing stored; the call carries the fields'
\* values of the moment of submission and the row made for it carries the call's
\* values; and on an ok response both fields become empty, whatever they hold
C17_EditsWhileSavingDiscarded ==
    [][/\ (isLoading /\ ~crashed /\ activeTab = "demo") =>
            /\ \A t \in Titles : ENABLED SetTitle(t)
            /\ \A d \in Descriptions : ENABLED SetDescription(d)
       /\ \A t \in Titles : SetTitle(t) => net' = net /\ server' = server
       /\ \A d \in Descriptions : SetDescription(d) => net' = net /\ server' = server
       /\ (handleSubmit /\ isLoading') =>
            net' = net (+) OneCall(CreateCall(title, description))
       /\ \A c \in CallsOf("create") :
            /\ (Serve(c) /\ storage' # storage) =>
                  \E r \in storage' :
                     /\ storage' = storage \cup {r} /\ r \notin storage
                     /\ r.title = c.title /\ r.description = c.description
            /\ (handleSubmitResume(c) /\ ~c.res.failed /\ ResponseOk(c.res)) =>
                  title' = <<>> /\ description' = <<>>]_vars

\* the ok response of a Create is about to be handled while both fields hold
\* text typed after the submission, which the stored row does not carry
C17_Witness ==
    \E c \in CallsOf("create") :
       /\ c.stage = "resp" /\ ~c.res.failed /\ ResponseOk(c.res)
       /\ isLoading
       /\ title \notin {<<>>, c.title}
       /\ description \notin {<<>>, c.description}
       /\ \E r \in storage : r.title = c.title /\ r.description = c.description
       /\ \A r \in storage : r.title # title /\ r.description # description
\* C16 as stated: with one action at a time and every call succeeding, whenever
\* no call is in flight the view holds the stored rows in List order
C16_ViewEqualsStorageAtRest ==
    net = EmptyBag => entries.defined /\ entries.rows \in Listings(storage)

\* C16 as amended: if the initial List has resolved before the first action, then
\* from there on, whenever no call is in flight, the view holds the stored rows
\* in List order
C16_ViewEqualsStorageOnceSettled ==
    []((issued = 0 /\ net = EmptyBag) => [](C16_ViewEqualsStorageAtRest))

\* two rows were created one after the other, both are stored and shown, and
\* nothing is in flight
C16_Witness ==
    /\ net = EmptyBag /\ issued = 2
    /\ Cardinality(storage) = 2
    /\ entries.defined /\ entries.rows \in Listings(storage)
====
